---- MODULE Spec2Model ----
(***************************************************************************)
(* Hireprep: the interview orchestration engine (InterviewGraph) and the   *)
(* real-time biometric pipeline (AnalysisService) it samples.              *)
(*                                                                         *)
(* JavaScript runs every handler to completion; a handler is split here    *)
(* only at its updateState calls, where subscribers observe the state, and *)
(* at its awaits, where other handlers may run.  `pc` names the point the  *)
(* running handler has reached; no other handler runs while pc # "idle".   *)
(* Objects that the code shares by reference (plan items, metrics objects) *)
(* live in heaps (`items`, `mheap`) and are named by their index.          *)
(***************************************************************************)
EXTENDS Integers, Sequences, FiniteSets, TLC

\* ------------------------------------------------------------- bounds
MaxPlanLen == 3      \* longest plan the plan collaborator returns
MaxStarts == 2       \* calls of start()
MaxTurns == 2        \* accepted answers
MaxSensorEvents == 3 \* audio ticks and video frames in one run
MaxSessionEvents == 1 \* of these, with an interview going on
MaxLoops == 2        \* processAudioLoop callbacks scheduled at once
MaxListeners == 2    \* registrations held in listeners

\* ------------------------------------------------------------- values
\* Texts are sequences of tokens; an optional value is a sequence of length
\* 0 (undefined) or 1.  An absent or empty text is <<>>, which is falsy.
Absent == "undefined"
NoText == <<>>
None == <<>>
Some(v) == <<v>>

Nodes == {"INIT", "ASK", "LISTEN", "ANALYZE", "DECIDE", "WRAP_UP", "END"}

Callbacks == {"ui"}

Answers == {<<"a1">>}

Last(s) == s[Len(s)]

Range(s) == {s[i] : i \in 1..Len(s)}

RemoveAt(s, i) == [j \in 1..(Len(s) - 1) |-> IF j < i THEN s[j] ELSE s[j + 1]]

\* x || d  on texts
OrElse(x, d) == IF x # NoText THEN x ELSE d

\* ------------------------------------------------------------- state
VARIABLES
  state,        \* InterviewGraph.state: the InterviewState record
  listeners,    \* InterviewGraph.listeners: registered callbacks, in order
  delivered,    \* per callback: the last state it was called with, and when
  broadcasts,    \* number of updateState broadcasts so far
  items,        \* heap of QuestionPlanItem objects; state.plan holds indices
  mheap,        \* heap of AnalysisMetrics objects; mheap[1] is currentMetrics
  pc,           \* point reached by the handler now running, or "idle"
  cotResult,    \* node_Analyze/node_Decide local: the reasoning result
  planCalls,    \* generateInterviewPlan calls awaited by node_Init
  ttsCalls,     \* synthesizeSpeech calls awaited by node_Ask
  playing,      \* buffer sources playing, onended not yet fired
  timers,       \* 300 ms settle timers pending
  cotCalls,     \* runCoTLoop calls awaited by node_Analyze, with their input
  starts,       \* start() calls so far
  handles,      \* per callback: unsubscribe functions returned and not yet called
  event,        \* the orchestrator step last taken
  asked,        \* history: the plan index at each entry into ASK
  now,          \* Date.now(), in ms
  isRunning,    \* AnalysisService.isRunning
  rafPending,   \* processAudioLoop callbacks scheduled with requestAnimationFrame
  rmsValues,    \* AnalysisService.rmsValues
  speechHistory,\* AnalysisService.speechHistory
  gazeHistory,  \* AnalysisService.gazeHistory
  cameraOn,     \* the MediaPipe camera loop is delivering frames
  inFlight,     \* frames sent to FaceMesh whose results are not yet delivered
  sensorEvents  \* audio ticks and video frames so far

graphVars == <<state, listeners, delivered, broadcasts, items, pc, cotResult,
               planCalls, ttsCalls, playing, timers, cotCalls, starts, handles>>
sensorVars == <<now, isRunning, rafPending, rmsValues, speechHistory,
                gazeHistory, cameraOn, inFlight, sensorEvents>>
vars == <<graphVars, sensorVars, mheap, event, asked>>

\* ------------------------------------------------------------- collaborators
\* generateInterviewPlan: what the remote call does is the input `o`: it fails
\* (the default plan is substituted), or its text parses to an array of
\* o.n items, which carry a status only if the remote model added one.
ItemNames == <<"1", "2", "3", "4", "5">>

DefaultPlan ==
  << [id |-> "q1", competency |-> "Intro", topic |-> "Tell me about yourself",
      status |-> "PENDING"],
     [id |-> "q2", competency |-> "Experience", topic |-> "Past Projects",
      status |-> "PENDING"] >>

ParsedPlan(n, st) ==
  [i \in 1..n |-> [id |-> ItemNames[i], competency |-> ItemNames[i],
                   topic |-> ItemNames[i], status |-> st]]

PlanOutcomes ==
  {[fail |-> TRUE, n |-> 0, status |-> Absent]} \cup
  {[fail |-> FALSE, n |-> n, status |-> Absent] : n \in 0..MaxPlanLen}

generateInterviewPlan(o) ==
  IF o.fail THEN DefaultPlan ELSE ParsedPlan(o.n, o.status)

\* runCoTLoop: the remote text after JSON.parse.  A field that may be missing
\* or of another type carries a flag for the test the code makes on it.
Num(v) == [isNumber |-> TRUE, val |-> v]
NotNum == [isNumber |-> FALSE, val |-> 0]
Arr(s) == [isArray |-> TRUE, val |-> s]
NotArr == [isArray |-> FALSE, val |-> <<>>]

EmptyObject ==
  [fail |-> FALSE,
   stepA_Goal |-> NoText,
   stepC_Analysis |-> [isObject |-> FALSE, contentReasoning |-> NoText,
                       deliveryReasoning |-> NoText,
                       scores |-> [isObject |-> FALSE, content |-> NotNum,
                                   delivery |-> NotNum],
                       strengths |-> NotArr, weaknesses |-> NotArr],
   stepD_Decision |-> [isObject |-> FALSE, action |-> NoText, reason |-> NoText],
   nextMessage |-> NoText]

FullResponse(action, msg) ==
  [fail |-> FALSE,
   stepA_Goal |-> <<"goal">>,
   stepC_Analysis |-> [isObject |-> TRUE, contentReasoning |-> <<"content ok">>,
                       deliveryReasoning |-> <<"delivery ok">>,
                       scores |-> [isObject |-> TRUE, content |-> Num(7),
                                   delivery |-> Num(8)],
                       strengths |-> Arr(<<"s">>), weaknesses |-> Arr(<<"w">>)],
   stepD_Decision |-> [isObject |-> TRUE, action |-> action,
                       reason |-> <<"why">>],
   nextMessage |-> msg]

\* a response with an action the engine does not know, a score that is not a
\* number and no next utterance
PartialResponse ==
  [FullResponse(<<"REPEAT">>, NoText) EXCEPT
     !.stepC_Analysis.scores.content = NotNum,
     !.stepC_Analysis.strengths = NotArr]

FailedResponse == [EmptyObject EXCEPT !.fail = TRUE]

RawResponses ==
  { FullResponse(<<"FOLLOW_UP">>, <<"m">>),
    FullResponse(<<"NEXT_QUESTION">>, <<"m">>),
    FullResponse(<<"WRAP_UP">>, <<"m">>),
    PartialResponse, FailedResponse }

\* a JSON value that is truthy and not a string (a number, an object) where
\* the response should carry a text
Mistyped == <<"#not a string">>

\* responses that differ from a well-formed one in one field, which is
\* missing or of another type, and the responses above
OneFieldOff ==
  LET full == FullResponse(<<"FOLLOW_UP">>, <<"m">>)
  IN { [full EXCEPT !.nextMessage = v] : v \in {NoText, Mistyped} } \cup
     { [full EXCEPT !.stepA_Goal = v] : v \in {NoText, Mistyped} } \cup
     { [full EXCEPT !.stepD_Decision.action = v] : v \in {NoText, Mistyped} } \cup
     { [full EXCEPT !.stepD_Decision.reason = v] : v \in {NoText, Mistyped} } \cup
     { [full EXCEPT !.stepC_Analysis.contentReasoning = v] : v \in {NoText, Mistyped} } \cup
     { [full EXCEPT !.stepC_Analysis.scores.content = NotNum],
       [full EXCEPT !.stepC_Analysis.scores.delivery = NotNum],
       [full EXCEPT !.stepC_Analysis.strengths = NotArr],
       [full EXCEPT !.stepC_Analysis.weaknesses = NotArr],
       [full EXCEPT !.stepC_Analysis.scores.isObject = FALSE],
       [full EXCEPT !.stepC_Analysis.isObject = FALSE],
       [full EXCEPT !.stepD_Decision.isObject = FALSE] }

ParseInputs == RawResponses \cup OneFieldOff \cup {EmptyObject}

GenericLine == <<"Thank you. Let's move on.">>

\* the sanitising of runCoTLoop, and its catch block
runCoTLoop(raw) ==
  IF raw.fail
  THEN [stepA_Goal |-> <<"Evaluate answer">>,
        stepC_Analysis |-> [contentReasoning |-> <<"Error parsing response">>,
                            deliveryReasoning |-> <<"Error parsing response">>,
                            scores |-> [content |-> 5, delivery |-> 5],
                            strengths |-> <<>>, weaknesses |-> <<>>],
        stepD_Decision |-> [action |-> <<"NEXT_QUESTION">>,
                            reason |-> <<"Fallback">>],
        nextMessage |-> GenericLine]
  ELSE
    LET stepC == IF raw.stepC_Analysis.isObject THEN raw.stepC_Analysis
                 ELSE EmptyObject.stepC_Analysis
        scores == IF stepC.scores.isObject THEN stepC.scores
                  ELSE [isObject |-> TRUE, content |-> Num(5), delivery |-> Num(5)]
        stepD == IF raw.stepD_Decision.isObject THEN raw.stepD_Decision
                 ELSE EmptyObject.stepD_Decision
    IN [stepA_Goal |-> OrElse(raw.stepA_Goal, <<"Evaluate answer">>),
        stepC_Analysis |->
          [contentReasoning |-> OrElse(stepC.contentReasoning, <<"Analysis unavailable">>),
           deliveryReasoning |-> OrElse(stepC.deliveryReasoning, <<"Analysis unavailable">>),
           scores |-> [content |-> IF scores.content.isNumber
                                   THEN scores.content.val ELSE 5,
                       delivery |-> IF scores.delivery.isNumber
                                    THEN scores.delivery.val ELSE 5],
           strengths |-> IF stepC.strengths.isArray THEN stepC.strengths.val ELSE <<>>,
           weaknesses |-> IF stepC.weaknesses.isArray THEN stepC.weaknesses.val ELSE <<>>],
        stepD_Decision |-> [action |-> OrElse(stepD.action, <<"NEXT_QUESTION">>),
                            reason |-> OrElse(stepD.reason, <<"Proceeding">>)],
        nextMessage |-> OrElse(raw.nextMessage, GenericLine)]

NoCot == runCoTLoop(FailedResponse)

\* ------------------------------------------------------------- metrics
\* pauseRatio and volumeStability are kept in tenths (the code rounds them
\* to one decimal); the other fields are integers.
InitialMetrics ==
  [speechRate |-> 0, pauseRatio |-> 0, volumeStability |-> 100,
   eyeContact |-> 100, confidence |-> 100, clarity |-> 8]

\* analysisService.currentMetrics is one object for the life of the page
CurrentMetricsRef == 1

currentMetrics == mheap[CurrentMetricsRef]

\* ------------------------------------------------------------- InterviewGraph
InitialState ==
  [config |-> "config", currentNode |-> "INIT", plan |-> <<>>,
   currentQuestionIndex |-> 0, transcript |-> <<>>, metricsHistory |-> <<>>,
   cotHistory |-> <<>>, currentQuestionText |-> NoText,
   currentAnswerText |-> NoText, lastAnalysis |-> None]

\* { ...this.state, ...partial }
Spread(partial) ==
  [f \in DOMAIN state |-> IF f \in DOMAIN partial THEN partial[f] ELSE state[f]]

\* this.listeners.forEach(l => l(this.state))
Notify(new) ==
  [cb \in Callbacks |->
     IF cb \in Range(listeners) THEN Some(new) ELSE delivered[cb]]

updateState(partial) ==
  /\ state' = Spread(partial)
  /\ delivered' = Notify(Spread(partial))
  /\ broadcasts' = broadcasts + 1
  /\ asked' = IF Spread(partial).currentNode = "ASK" /\ state.currentNode # "ASK"
               THEN Append(asked, Spread(partial).currentQuestionIndex)
               ELSE asked

noUpdate == UNCHANGED <<state, delivered, broadcasts, asked>>

subscribe(cb) ==
  /\ pc = "idle"
  /\ Len(listeners) < MaxListeners
  /\ handles[cb] < MaxListeners
  /\ listeners' = Append(listeners, cb)
  /\ delivered' = [delivered EXCEPT ![cb] = Some(state)]
  /\ handles' = [handles EXCEPT ![cb] = @ + 1]
  /\ event' = "subscribe"
  /\ UNCHANGED <<state, broadcasts, asked, items, mheap, pc, cotResult, planCalls,
                 ttsCalls, playing, timers, cotCalls, starts, sensorVars>>

\* one of the functions subscribe(cb) returned, called for the first time
unsubscribe(cb) ==
  /\ pc = "idle"
  /\ handles[cb] > 0
  /\ handles' = [handles EXCEPT ![cb] = @ - 1]
  /\ listeners' = SelectSeq(listeners, LAMBDA l : l # cb)
  /\ event' = "unsubscribe"
  /\ UNCHANGED <<state, delivered, broadcasts, asked, items, mheap, pc, cotResult,
                 planCalls, ttsCalls, playing, timers, cotCalls, starts,
                 sensorVars>>

\* start(), up to the await of generateInterviewPlan in node_Init
start ==
  /\ pc = "idle"
  /\ starts < MaxStarts
  /\ updateState([currentNode |-> "INIT"])
  /\ planCalls' = planCalls + 1
  /\ starts' = starts + 1
  /\ event' = "start"
  /\ UNCHANGED <<listeners, items, mheap, pc, cotResult, ttsCalls, playing,
                 timers, cotCalls, handles, sensorVars>>

WelcomeText(topic) ==
  <<"Welcome to the interview for the role. Let's start with: ", topic, "?">>

\* node_Init from the return of generateInterviewPlan to the call of node_Ask.
\* With an empty plan, plan[0].topic throws while the argument of updateState
\* is built: the handler ends there and nothing is updated.
node_Init(o) ==
  /\ pc = "idle"
  /\ planCalls > 0
  /\ planCalls' = planCalls - 1
  /\ LET plan == generateInterviewPlan(o)
         refs == [i \in 1..Len(plan) |-> Len(items) + i]
         objs == [i \in 1..Len(plan) |->
                    IF i = 1 THEN [plan[i] EXCEPT !.status = "ACTIVE"] ELSE plan[i]]
     IN IF Len(plan) > 0
        THEN /\ items' = items \o objs
             /\ updateState([plan |-> refs, currentNode |-> "ASK",
                             currentQuestionText |-> WelcomeText(plan[1].topic)])
             /\ pc' = "node_Ask"
             /\ event' = IF o.fail THEN "node_Init after failure" ELSE "node_Init"
        ELSE /\ noUpdate
             /\ UNCHANGED <<items, pc>>
             /\ event' = "node_Init throws"
  /\ UNCHANGED <<listeners, mheap, cotResult, ttsCalls, playing, timers,
                 cotCalls, starts, handles, sensorVars>>

\* a plausible slip: the new transcript holds the new utterance alone
AskHistory_Alone(textToSpeak) ==
  <<[role |-> "ai", text |-> textToSpeak, timestamp |-> now]>>

\* newHistory of node_Ask
AskHistory(textToSpeak) ==
  Append(state.transcript,
         [role |-> "ai", text |-> textToSpeak, timestamp |-> now])

\* node_Ask up to the await of synthesizeSpeech
node_Ask ==
  /\ pc = "node_Ask"
  /\ updateState([transcript |-> AskHistory(state.currentQuestionText)])
  /\ ttsCalls' = ttsCalls + 1
  /\ pc' = "idle"
  /\ event' = "node_Ask"
  /\ UNCHANGED <<listeners, items, mheap, cotResult, planCalls, playing,
                 timers, cotCalls, starts, handles, sensorVars>>

\* if (buffer)
PlaysBack(buffer) == buffer

\* node_Ask from the return of synthesizeSpeech: with a buffer playback
\* starts and onended is set, without one the machine goes to LISTEN
speechReturns(buffer) ==
  /\ pc = "idle"
  /\ ttsCalls > 0
  /\ ttsCalls' = ttsCalls - 1
  /\ IF PlaysBack(buffer)
     THEN /\ playing' = playing + 1
          /\ noUpdate
     ELSE /\ updateState([currentNode |-> "LISTEN"])
          /\ UNCHANGED playing
  /\ event' = IF buffer THEN "playAudioBuffer" ELSE "no speech"
  /\ UNCHANGED <<listeners, items, mheap, pc, cotResult, planCalls, timers,
                 cotCalls, starts, handles, sensorVars>>

\* source.onended: playback is over, the settle timer is set
onended ==
  /\ pc = "idle"
  /\ playing > 0
  /\ playing' = playing - 1
  /\ timers' = timers + 1
  /\ event' = "onended"
  /\ UNCHANGED <<state, listeners, delivered, broadcasts, asked, items, mheap, pc,
                 cotResult, planCalls, ttsCalls, cotCalls, starts, handles,
                 sensorVars>>

\* the setTimeout callback of node_Ask
settleTimer ==
  /\ pc = "idle"
  /\ timers > 0
  /\ timers' = timers - 1
  /\ updateState([currentNode |-> "LISTEN"])
  /\ event' = "settleTimer"
  /\ UNCHANGED <<listeners, items, mheap, pc, cotResult, planCalls, ttsCalls,
                 playing, cotCalls, starts, handles, sensorVars>>

\* a plausible slip: the live object itself is stored, not a copy
SnapshotRef_Alias == CurrentMetricsRef

\* { ...analysisService.currentMetrics }: a new object with the same fields
SnapshotRef == Len(mheap) + 1

SnapshotHeap == Append(mheap, currentMetrics)

\* this.state.plan[i] || { competency: 'General' }
Competency(plan, index) ==
  IF index + 1 \in 1..Len(plan) THEN items[plan[index + 1]].competency
  ELSE "General"

\* history.slice(-3)
Tail3(s) == SubSeq(s, IF Len(s) > 3 THEN Len(s) - 2 ELSE 1, Len(s))

\* the perception summary runCoTLoop writes into its prompt
Perception(m) ==
  [speechRate |-> m.speechRate, pauseRatio |-> m.pauseRatio,
   volumeStability |-> m.volumeStability, eyeContact |-> m.eyeContact,
   confidence |-> m.confidence]

\* a plausible slip: the guard of submitAnswer is missing
Listening_Always == TRUE

\* the guard of submitAnswer
Listening == state.currentNode = "LISTEN"

\* a plausible slip: the snapshot is recorded twice
MetricsAppended_Twice == state.metricsHistory \o <<SnapshotRef, SnapshotRef>>

\* [...this.state.metricsHistory, metricsSnapshot]
MetricsAppended == Append(state.metricsHistory, SnapshotRef)

\* submitAnswer, and node_Analyze up to the await of the reasoning call
submitAnswer(answerText) ==
  /\ pc = "idle"
  /\ IF ~Listening
     THEN /\ noUpdate
          /\ UNCHANGED <<mheap, cotCalls>>
          /\ event' = "submitAnswer ignored"
     ELSE /\ Len(state.metricsHistory) < MaxTurns
          /\ mheap' = SnapshotHeap
          /\ LET newHistory ==
                   Append(state.transcript,
                          [role |-> "user", text |-> answerText, timestamp |-> now])
             IN /\ updateState([transcript |-> newHistory,
                                currentAnswerText |-> answerText,
                                metricsHistory |-> MetricsAppended,
                                currentNode |-> "ANALYZE"])
                /\ cotCalls' = Append(cotCalls,
                     [metrics |-> SnapshotRef,
                      history |-> Tail3(newHistory),
                      currentQuestion |-> state.currentQuestionText,
                      userAnswer |-> answerText,
                      perception |-> Perception(SnapshotHeap[SnapshotRef]),
                      competency |-> Competency(state.plan,
                                                state.currentQuestionIndex)])
          /\ event' = "submitAnswer"
  /\ UNCHANGED <<listeners, items, pc, cotResult, planCalls, ttsCalls, playing,
                 timers, starts, handles, sensorVars>>

\* node_Analyze from the return of runCoTLoop to the call of node_Decide
node_Analyze(i, raw) ==
  /\ pc = "idle"
  /\ i \in 1..Len(cotCalls)
  /\ cotCalls' = RemoveAt(cotCalls, i)
  /\ LET metrics == cotCalls[i].metrics
         result == runCoTLoop(raw)
         newCoTLog ==
           [stepId |-> now, timestamp |-> now,
            goal |-> result.stepA_Goal,
            perception |-> [speechRate |-> mheap[metrics].speechRate,
                            eyeContact |-> mheap[metrics].eyeContact],
            analysis |-> result.stepC_Analysis.scores,
            decision |-> [action |-> result.stepD_Decision.action,
                          reason |-> result.stepD_Decision.reason]]
         analysis ==
           [questionId |-> state.currentQuestionIndex,
            questionText |-> state.currentQuestionText,
            userAnswer |-> state.currentAnswerText,
            metrics |-> metrics,
            contentScore |-> result.stepC_Analysis.scores.content,
            deliveryScore |-> result.stepC_Analysis.scores.delivery,
            feedback |-> result.stepC_Analysis.contentReasoning,
            strengths |-> result.stepC_Analysis.strengths,
            weaknesses |-> result.stepC_Analysis.weaknesses]
     IN /\ cotResult' = result
        /\ updateState([cotHistory |-> Append(state.cotHistory, newCoTLog),
                        lastAnalysis |-> Some(analysis),
                        currentNode |-> "DECIDE"])
  /\ pc' = "node_Decide"
  /\ event' = "node_Analyze"
  /\ UNCHANGED <<listeners, items, mheap, planCalls, ttsCalls, playing, timers,
                 starts, handles, sensorVars>>

\* a plausible slip: the session ends one item early
WrapUpTest_Early(action, index) ==
  action = <<"WRAP_UP">> \/ index >= Len(state.plan) - 2

\* the first test of node_Decide
WrapUpTest(action, index) ==
  action = <<"WRAP_UP">> \/ index >= Len(state.plan) - 1

\* a plausible slip: a follow-up moves on to the next item
FollowUpUpdate_Advances(nextMessage) ==
  [currentQuestionIndex |-> state.currentQuestionIndex + 1,
   currentQuestionText |-> nextMessage, currentNode |-> "ASK"]

\* the update of the FOLLOW_UP branch
FollowUpUpdate(nextMessage) ==
  [currentQuestionText |-> nextMessage, currentNode |-> "ASK"]

\* newPlan[currentQuestionIndex].status = 'COMPLETED';
\* newPlan[nextIndex].status = 'ACTIVE': the items are the objects of the
\* old plan array, changed in place
PlanStatuses(index, nextIndex) ==
  [items EXCEPT ![state.plan[index + 1]].status = "COMPLETED",
                ![state.plan[nextIndex + 1]].status = "ACTIVE"]

\* node_Decide up to the call of node_Ask
node_Decide ==
  /\ pc = "node_Decide"
  /\ LET action == cotResult.stepD_Decision.action
         nextMessage == cotResult.nextMessage
         index == state.currentQuestionIndex
     IN IF WrapUpTest(action, index)
        THEN /\ updateState([currentNode |-> "WRAP_UP"])
             /\ pc' = "idle"
             /\ UNCHANGED items
        ELSE IF action = <<"FOLLOW_UP">>
        THEN /\ updateState(FollowUpUpdate(nextMessage))
             /\ pc' = "node_Ask"
             /\ UNCHANGED items
        ELSE LET nextIndex == index + 1
             IN /\ items' = PlanStatuses(index, nextIndex)
                /\ updateState([plan |-> state.plan,
                                currentQuestionIndex |-> nextIndex,
                                currentQuestionText |-> nextMessage,
                                currentNode |-> "ASK"])
                /\ pc' = "node_Ask"
  /\ cotResult' = NoCot
  /\ event' = "node_Decide"
  /\ UNCHANGED <<listeners, mheap, planCalls, ttsCalls, playing, timers,
                 cotCalls, starts, handles, sensorVars>>

\* ------------------------------------------------------------- AnalysisService
RECURSIVE SumSeq(_)
SumSeq(s) == IF s = <<>> THEN 0 ELSE Head(s) + SumSeq(Tail(s))

Squares(s) == [i \in 1..Len(s) |-> s[i] * s[i]]

MaxOf(S) == CHOOSE x \in S : \A y \in S : y <= x

\* Math.round(a / b) for a >= 0, b > 0
RoundDiv(a, b) == (2 * a + b) \div (2 * b)

RmsWindow == 50
RmsMinSamples == 10
RmsFloor == 5
SilenceThreshold == 15
WindowMs == 5000
GazeWindow == 30
NoFacePenalty == 5

\* the stability computed from any number of readings
StabilityTenths_NoMinimum(readings) ==
  LET n == Len(readings)
      S == SumSeq(readings)
      V == n * SumSeq(Squares(readings)) - S * S
  IN MaxOf({0} \cup {t \in 0..100 :
                       16 * V <= (n * (201 - 2 * t)) * (n * (201 - 2 * t))})

\* Number(Math.max(0, 10 - Math.sqrt(variance) / 5).toFixed(1)), in tenths.
\* With n readings of sum S and sum of squares Q the variance is V / n^2 for
\* V = n*Q - S^2, and 10 - sqrt(variance)/5 rounds to t tenths or more exactly
\* when 16*V <= (n*(201 - 2t))^2.
StabilityTenths(readings) ==
  IF Len(readings) > RmsMinSamples
  THEN LET n == Len(readings)
           S == SumSeq(readings)
           V == n * SumSeq(Squares(readings)) - S * S
       IN MaxOf({0} \cup {t \in 0..100 :
                            16 * V <= (n * (201 - 2 * t)) * (n * (201 - 2 * t))})
  ELSE 100

\* calculateAudioMetrics refreshing the composite confidence as well
calculateAudioMetrics_WithConfidence(m, readings, history) ==
  LET totalFrames == Len(history)
      speechFrames == Cardinality({i \in 1..Len(history) : history[i].isSpeech})
  IN [m EXCEPT
        !.volumeStability = StabilityTenths(readings),
        !.pauseRatio = IF totalFrames > 0
                       THEN RoundDiv(1000 * (totalFrames - speechFrames), totalFrames)
                       ELSE 1000,
        !.speechRate = IF totalFrames > 0
                       THEN RoundDiv(180 * speechFrames, totalFrames)
                       ELSE 0,
        !.confidence = RoundDiv(6 * m.eyeContact + 4 * StabilityTenths(readings), 10)]

\* calculateAudioMetrics publishing the speech ratio as pauseRatio
calculateAudioMetrics_SpeechRatio(m, readings, history) ==
  LET totalFrames == Len(history)
      speechFrames == Cardinality({i \in 1..Len(history) : history[i].isSpeech})
  IN [m EXCEPT
        !.volumeStability = StabilityTenths(readings),
        !.pauseRatio = IF totalFrames > 0
                       THEN RoundDiv(1000 * speechFrames, totalFrames)
                       ELSE 0,
        !.speechRate = IF totalFrames > 0
                       THEN RoundDiv(180 * speechFrames, totalFrames)
                       ELSE 0]

\* calculateAudioMetrics, as the new value of currentMetrics
calculateAudioMetrics(m, readings, history) ==
  LET totalFrames == Len(history)
      speechFrames == Cardinality({i \in 1..Len(history) : history[i].isSpeech})
  IN [m EXCEPT
        !.volumeStability = StabilityTenths(readings),
        !.pauseRatio = IF totalFrames > 0
                       THEN RoundDiv(1000 * (totalFrames - speechFrames), totalFrames)
                       ELSE 1000,
        !.speechRate = IF totalFrames > 0
                       THEN RoundDiv(180 * speechFrames, totalFrames)
                       ELSE 0]

\* the loudness buffer without its capacity
PushRms_NoEvict(readings, rms) ==
  IF rms > RmsFloor THEN Append(readings, rms) ELSE readings

\* the body of processAudioLoop for a loudness reading rms at time t
PushRms(readings, rms) ==
  IF rms > RmsFloor
  THEN LET pushed == Append(readings, rms)
       IN IF Len(pushed) > RmsWindow THEN Tail(pushed) ELSE pushed
  ELSE readings

PushSpeech(history, rms, t) ==
  LET pushed == Append(history, [time |-> t, isSpeech |-> rms > SilenceThreshold])
  IN IF t - pushed[1].time > WindowMs THEN Tail(pushed) ELSE pushed

processAudioLoop(rms, t) ==
  /\ rmsValues' = PushRms(rmsValues, rms)
  /\ speechHistory' = PushSpeech(speechHistory, rms, t)
  /\ mheap' = [mheap EXCEPT ![CurrentMetricsRef] =
                 calculateAudioMetrics(@, PushRms(rmsValues, rms),
                                       PushSpeech(speechHistory, rms, t))]

\* initAudio: the analyser is set up and the first processAudioLoop runs at
\* once and schedules the next
initAudio(rms) ==
  /\ pc = "idle"
  /\ rafPending < MaxLoops
  /\ isRunning' = TRUE
  /\ processAudioLoop(rms, now)
  /\ rafPending' = rafPending + 1
  /\ UNCHANGED <<graphVars, event, asked, now, gazeHistory, cameraOn, inFlight, sensorEvents>>

\* a requestAnimationFrame callback, dt ms after the last sensor event
audioTick(rms, dt) ==
  /\ pc = "idle"
  /\ rafPending > 0
  /\ sensorEvents < MaxSensorEvents
  /\ sensorEvents' = sensorEvents + 1
  /\ now' = now + dt
  /\ IF isRunning
     THEN /\ processAudioLoop(rms, now + dt)
          /\ UNCHANGED rafPending
     ELSE /\ rafPending' = rafPending - 1
          /\ UNCHANGED <<rmsValues, speechHistory, mheap>>
  /\ UNCHANGED <<graphVars, event, asked, isRunning, gazeHistory, cameraOn, inFlight>>

\* initVideo with FaceMesh loaded: the camera loop starts
initVideo ==
  /\ pc = "idle"
  /\ ~cameraOn
  /\ cameraOn' = TRUE
  /\ UNCHANGED <<graphVars, event, asked, mheap, now, isRunning, rafPending, rmsValues,
                 speechHistory, gazeHistory, inFlight, sensorEvents>>

\* the camera's onFrame: a frame is sent to FaceMesh
cameraFrame(dt) ==
  /\ pc = "idle"
  /\ cameraOn
  /\ sensorEvents < MaxSensorEvents
  /\ sensorEvents' = sensorEvents + 1
  /\ now' = now + dt
  /\ inFlight' = inFlight + 1
  /\ UNCHANGED <<graphVars, event, asked, mheap, isRunning, rafPending, rmsValues,
                 speechHistory, gazeHistory, cameraOn>>

FaceOutcomes == {"no face", "looking", "away"}

PushGaze(history, isLooking) ==
  LET pushed == Append(history, isLooking)
  IN IF Len(pushed) > GazeWindow THEN Tail(pushed) ELSE pushed

\* onFaceResults recomputing confidence when no face is found
FaceMetrics_Recomputes(m, history, face) ==
  IF face # "no face"
  THEN LET gaze == PushGaze(history, face = "looking")
           eye == RoundDiv(100 * Cardinality({i \in 1..Len(gaze) : gaze[i]}), Len(gaze))
       IN [m EXCEPT !.eyeContact = eye,
                    !.confidence = RoundDiv(6 * eye + 4 * m.volumeStability, 10)]
  ELSE [m EXCEPT !.eyeContact = 0,
                 !.confidence = RoundDiv(4 * m.volumeStability, 10)]

\* onFaceResults without the floor of the no-face penalty
FaceMetrics_NoFloor(m, history, face) ==
  IF face # "no face"
  THEN LET gaze == PushGaze(history, face = "looking")
           eye == RoundDiv(100 * Cardinality({i \in 1..Len(gaze) : gaze[i]}), Len(gaze))
       IN [m EXCEPT !.eyeContact = eye,
                    !.confidence = RoundDiv(6 * eye + 4 * m.volumeStability, 10)]
  ELSE [m EXCEPT !.eyeContact = 0,
                 !.confidence = m.confidence - NoFacePenalty]

\* onFaceResults, as the new values of gazeHistory and currentMetrics
FaceMetrics(m, history, face) ==
  IF face # "no face"
  THEN LET gaze == PushGaze(history, face = "looking")
           eye == RoundDiv(100 * Cardinality({i \in 1..Len(gaze) : gaze[i]}), Len(gaze))
       IN [m EXCEPT !.eyeContact = eye,
                    !.confidence = RoundDiv(6 * eye + 4 * m.volumeStability, 10)]
  ELSE [m EXCEPT !.eyeContact = 0,
                 !.confidence = IF m.confidence - NoFacePenalty > 0
                                THEN m.confidence - NoFacePenalty ELSE 0]

onFaceResults(face) ==
  /\ pc = "idle"
  /\ inFlight > 0
  /\ inFlight' = inFlight - 1
  /\ gazeHistory' = IF face # "no face"
                    THEN PushGaze(gazeHistory, face = "looking")
                    ELSE gazeHistory
  /\ mheap' = [mheap EXCEPT ![CurrentMetricsRef] = FaceMetrics(@, gazeHistory, face)]
  /\ UNCHANGED <<graphVars, event, asked, now, isRunning, rafPending, rmsValues,
                 speechHistory, cameraOn, sensorEvents>>

stop ==
  /\ pc = "idle"
  /\ isRunning' = FALSE
  /\ cameraOn' = FALSE
  /\ rmsValues' = <<>>
  /\ gazeHistory' = <<>>
  /\ speechHistory' = <<>>
  /\ UNCHANGED <<graphVars, event, asked, mheap, now, rafPending, inFlight, sensorEvents>>

\* ------------------------------------------------------------- specification
\* loudness readings: below the floor, between floor and speech threshold, speech
RmsInputs == {0, 10, 40}
TickGaps == {1000}
\* the readings and face results of the one-interview specification
SessionRms == {40}
SessionFaces == {"no face", "away"}
\* the gaps between sensor events of the pipeline specification: a regular
\* one and one longer than the speech window
PipelineGaps == {1000, 6000}

Init ==
  /\ state = InitialState
  /\ listeners = <<>>
  /\ delivered = [cb \in Callbacks |-> None]
  /\ broadcasts = 0
  /\ items = <<>>
  /\ mheap = <<InitialMetrics>>
  /\ pc = "idle"
  /\ cotResult = NoCot
  /\ planCalls = 0
  /\ ttsCalls = 0
  /\ playing = 0
  /\ timers = 0
  /\ cotCalls = <<>>
  /\ starts = 0
  /\ handles = [cb \in Callbacks |-> 0]
  /\ event = "constructor"
  /\ asked = <<>>
  /\ now = 0
  /\ isRunning = FALSE
  /\ rafPending = 0
  /\ rmsValues = <<>>
  /\ speechHistory = <<>>
  /\ gazeHistory = <<>>
  /\ cameraOn = FALSE
  /\ inFlight = 0
  /\ sensorEvents = 0

\* The orchestrator, with start() called again at any time.
Next ==
  \/ \E cb \in Callbacks : subscribe(cb)
  \/ start
  \/ \E o \in PlanOutcomes : node_Init(o)
  \/ node_Ask
  \/ \E buffer \in BOOLEAN : speechReturns(buffer)
  \/ onended
  \/ settleTimer
  \/ \E answerText \in Answers : submitAnswer(answerText)
  \/ \E i \in 1..Len(cotCalls), raw \in RawResponses : node_Analyze(i, raw)
  \/ node_Decide

Spec == Init /\ [][Next]_vars

\* One interview, as the page runs it: start() once, the sensors running.
SessionNext ==
  \/ (starts = 0 /\ start)
  \/ \E o \in PlanOutcomes : node_Init(o)
  \/ node_Ask
  \/ \E buffer \in BOOLEAN : speechReturns(buffer)
  \/ onended
  \/ settleTimer
  \/ \E answerText \in Answers : submitAnswer(answerText)
  \/ \E i \in 1..Len(cotCalls), raw \in RawResponses : node_Analyze(i, raw)
  \/ node_Decide
  \/ \E rms \in SessionRms : initAudio(rms)
  \/ sensorEvents < MaxSessionEvents /\
       \E rms \in SessionRms, dt \in TickGaps : audioTick(rms, dt)
  \/ initVideo
  \/ sensorEvents < MaxSessionEvents /\ \E dt \in TickGaps : cameraFrame(dt)
  \/ \E face \in SessionFaces : onFaceResults(face)
  \/ stop

SessionSpec == Init /\ [][SessionNext]_vars

\* One interview with the page subscribing and unsubscribing at any time.
SubscriberNext ==
  \/ \E cb \in Callbacks : subscribe(cb)
  \/ \E cb \in Callbacks : unsubscribe(cb)
  \/ (starts = 0 /\ start)
  \/ \E o \in PlanOutcomes : node_Init(o)
  \/ node_Ask
  \/ \E buffer \in BOOLEAN : speechReturns(buffer)
  \/ onended
  \/ settleTimer
  \/ \E answerText \in Answers : submitAnswer(answerText)
  \/ \E i \in 1..Len(cotCalls), raw \in RawResponses : node_Analyze(i, raw)
  \/ node_Decide

SubscriberSpec == Init /\ [][SubscriberNext]_vars

\* One interview in which the reasoning collaborator may return any of the
\* malformed responses.
ParseNext ==
  \/ (starts = 0 /\ start)
  \/ \E o \in PlanOutcomes : node_Init(o)
  \/ node_Ask
  \/ \E buffer \in BOOLEAN : speechReturns(buffer)
  \/ onended
  \/ settleTimer
  \/ \E answerText \in Answers : submitAnswer(answerText)
  \/ \E i \in 1..Len(cotCalls), raw \in ParseInputs : node_Analyze(i, raw)
  \/ node_Decide

ParseSpec == Init /\ [][ParseNext]_vars

\* The biometric pipeline alone: no interview is started.
PipelineNext ==
  \/ \E rms \in RmsInputs : initAudio(rms)
  \/ \E rms \in RmsInputs, dt \in PipelineGaps : audioTick(rms, dt)
  \/ initVideo
  \/ \E dt \in PipelineGaps : cameraFrame(dt)
  \/ \E face \in FaceOutcomes : onFaceResults(face)
  \/ stop

PipelineSpec == Init /\ [][PipelineNext]_vars

\* The orchestrator alone in one interview, with the fairness the claims
\* assume: every collaborator call returns, playback and the settle timer
\* complete, the handlers run on, and the candidate answers while the
\* machine listens.
LiveNext ==
  \/ (starts = 0 /\ start)
  \/ \E o \in PlanOutcomes : node_Init(o)
  \/ node_Ask
  \/ \E buffer \in BOOLEAN : speechReturns(buffer)
  \/ onended
  \/ settleTimer
  \/ \E answerText \in Answers : submitAnswer(answerText)
  \/ \E i \in 1..Len(cotCalls), raw \in RawResponses : node_Analyze(i, raw)
  \/ node_Decide

LiveSpec ==
  /\ Init
  /\ [][LiveNext]_vars
  /\ WF_vars(\E o \in PlanOutcomes : node_Init(o))
  /\ WF_vars(node_Ask)
  /\ WF_vars(\E buffer \in BOOLEAN : speechReturns(buffer))
  /\ WF_vars(onended)
  /\ WF_vars(settleTimer)
  /\ WF_vars(state.currentNode = "LISTEN" /\ \E answerText \in Answers : submitAnswer(answerText))
  /\ WF_vars(\E i \in 1..Len(cotCalls), raw \in RawResponses : node_Analyze(i, raw))
  /\ WF_vars(node_Decide)

\* The biometric pipeline in the middle of a session: Init is the state the
\* service holds after initAudio and a run of ticks and face results, computed
\* by replaying processAudioLoop and onFaceResults over a pattern of inputs.
MaxWarmEvents == 2
\* ms between the ticks of the run
WarmGap == 100
\* the readings of the run, repeated in a cycle: steady speech, speech with
\* pauses, and shouting with pauses
WarmRms == {<<40>>, <<40, 10>>, <<120, 10>>}
\* how many ticks the run has, initAudio's own included: around the
\* RmsMinSamples limit and at the RmsWindow capacity
WarmTickCounts == {1, 10, 11, 50}
WarmFaces == {<<"looking">>, <<"looking", "away", "no face">>}
WarmFaceCounts == {0, 30}

\* the k-th input of a run that repeats pattern
Cycle(pattern, k) == pattern[((k - 1) % Len(pattern)) + 1]

\* a run: ticks every WarmGap ms from time 0, then face results
WarmRun(ticks, rmsPattern, faces, facePattern) ==
  [k \in 1..(ticks + faces) |->
     IF k <= ticks
     THEN [kind |-> "tick", rms |-> Cycle(rmsPattern, k),
           time |-> (k - 1) * WarmGap, face |-> "no face"]
     ELSE [kind |-> "face", rms |-> 0, time |-> 0,
           face |-> Cycle(facePattern, k - ticks)]]

\* the data of the service after construction
Cold ==
  [rmsValues |-> <<>>, speechHistory |-> <<>>, gazeHistory |-> <<>>,
   metrics |-> InitialMetrics]

\* one handler run on the data p: processAudioLoop or onFaceResults
Replay(p, e) ==
  IF e.kind = "tick"
  THEN LET readings == PushRms(p.rmsValues, e.rms)
           history == PushSpeech(p.speechHistory, e.rms, e.time)
       IN [p EXCEPT !.rmsValues = readings,
                    !.speechHistory = history,
                    !.metrics = calculateAudioMetrics(@, readings, history)]
  ELSE [p EXCEPT !.gazeHistory = IF e.face # "no face"
                                 THEN PushGaze(@, e.face = "looking")
                                 ELSE @,
                 !.metrics = FaceMetrics(@, p.gazeHistory, e.face)]

\* the handlers run for the entries lo..hi of a run, in order; the run is
\* split in halves and the first half is evaluated before the second is
\* entered, which keeps the evaluation shallow
RECURSIVE ReplayAll(_, _, _, _)
ReplayAll(p, run, lo, hi) ==
  IF lo > hi THEN p
  ELSE IF lo = hi THEN Replay(p, run[lo])
  ELSE LET mid == (lo + hi) \div 2
           half == ReplayAll(p, run, lo, mid)
       IN IF DOMAIN half # {} THEN ReplayAll(half, run, mid + 1, hi) ELSE p

WarmInit ==
  \E ticks \in WarmTickCounts, rmsPattern \in WarmRms,
     faces \in WarmFaceCounts, facePattern \in WarmFaces :
    LET warm == ReplayAll(Cold, WarmRun(ticks, rmsPattern, faces, facePattern),
                          1, ticks + faces)
    IN /\ state = InitialState
       /\ listeners = <<>>
       /\ delivered = [cb \in Callbacks |-> None]
       /\ broadcasts = 0
       /\ items = <<>>
       /\ mheap = <<warm.metrics>>
       /\ pc = "idle"
       /\ cotResult = NoCot
       /\ planCalls = 0
       /\ ttsCalls = 0
       /\ playing = 0
       /\ timers = 0
       /\ cotCalls = <<>>
       /\ starts = 0
       /\ handles = [cb \in Callbacks |-> 0]
       /\ event = "constructor"
       /\ asked = <<>>
       /\ now = (ticks - 1) * WarmGap
       /\ isRunning = TRUE
       /\ rafPending = 1
       /\ rmsValues = warm.rmsValues
       /\ speechHistory = warm.speechHistory
       /\ gazeHistory = warm.gazeHistory
       /\ cameraOn = TRUE
       /\ inFlight = 0
       /\ sensorEvents = 0

WarmNext ==
  \/ \E rms \in RmsInputs : initAudio(rms)
  \/ sensorEvents < MaxWarmEvents /\
       \E rms \in RmsInputs, dt \in TickGaps : audioTick(rms, dt)
  \/ initVideo
  \/ sensorEvents < MaxWarmEvents /\ \E dt \in TickGaps : cameraFrame(dt)
  \/ \E face \in FaceOutcomes : onFaceResults(face)
  \/ stop

WarmSpec == WarmInit /\ [][WarmNext]_vars

\* ------------------------------------------------------------- properties
UserEntries(t) == Cardinality({i \in 1..Len(t) : t[i].role = "user"})

IsPrefix(s, t) == Len(s) <= Len(t) /\ SubSeq(t, 1, Len(s)) = s

\* a step that is a call of submitAnswer
SubmitStep == event' # event /\ event' \in {"submitAnswer", "submitAnswer ignored"}

\* the action the reasoning result in hand asks for, and the last one logged
DecidedAction == cotResult.stepD_Decision.action

LoggedAction == Last(state.cotHistory).decision.action

LastIndex == Len(state.plan) - 1

\* C1: a call of submitAnswer outside LISTEN changes nothing of the session
\* and notifies nobody; a call in LISTEN appends one candidate entry and one
\* metrics entry and leaves LISTEN, so a second call in a row is ignored.
C1_SubmitOutsideListenIsNoOp ==
  [][SubmitStep =>
       IF state.currentNode # "LISTEN"
       THEN UNCHANGED <<state, delivered, broadcasts, items, mheap, cotCalls,
                        planCalls, ttsCalls, playing, timers, pc, asked>>
       ELSE /\ UserEntries(state'.transcript) = UserEntries(state.transcript) + 1
            /\ Len(state'.metricsHistory) = Len(state.metricsHistory) + 1
            /\ state'.currentNode # "LISTEN"]_vars

C1_Witness ==
  /\ event = "submitAnswer ignored"
  /\ state.currentNode = "ANALYZE"
  /\ starts = 1
  /\ UserEntries(state.transcript) = 1
  /\ Len(state.metricsHistory) = 1
  /\ delivered["ui"] = Some(state)

OnlyNextQuestion ==
  \A i \in 1..Len(state.cotHistory) :
     state.cotHistory[i].decision.action = <<"NEXT_QUESTION">>

\* C2: in one interview whose reasoning answers are all NEXT_QUESTION, ASK is
\* entered for the plan indices 0, 1, ... in order, once each, and the machine
\* is in WRAP_UP exactly when as many turns as the plan has items are over.
C2_AskOncePerItemThenWrapUp ==
  (starts = 1 /\ OnlyNextQuestion /\ Len(state.plan) >= 1) =>
    LET n == Len(state.plan)
        turns == Len(state.cotHistory)
    IN /\ asked = [i \in 1..Len(asked) |-> i - 1]
       /\ Len(asked) <= n
       /\ pc # "node_Decide" => Len(asked) = IF turns < n THEN turns + 1 ELSE n
       /\ state.currentNode = "WRAP_UP" <=> (turns = n /\ pc # "node_Decide")

C2_Witness ==
  /\ starts = 1
  /\ OnlyNextQuestion
  /\ Len(state.plan) = 2
  /\ asked = <<0, 1>>
  /\ state.currentNode = "WRAP_UP"

\* C3: every started session reaches WRAP_UP (or, in this model, uses up the
\* answers the bound MaxTurns allows), whatever the collaborators return.
C3_AlwaysReachesWrapUp ==
  (starts > 0) ~>
     (state.currentNode = "WRAP_UP" \/ Len(state.metricsHistory) = MaxTurns)

\* C4: DECIDE goes to WRAP_UP exactly when the action is WRAP_UP or
\* the index is the last index of the plan, and to ASK otherwise.
C4_WrapUpIffActionOrLastIndex ==
  [][pc = "node_Decide" =>
       /\ state'.currentNode = "WRAP_UP" <=>
            (DecidedAction = <<"WRAP_UP">> \/ state.currentQuestionIndex = LastIndex)
       /\ state'.currentNode \in {"WRAP_UP", "ASK"}]_vars

\* C5: a FOLLOW_UP that sends DECIDE to ASK leaves the plan index, the plan
\* and every plan item as they were; of the session only currentQuestionText
\* (and currentNode) changes, to the utterance the collaborator proposed.
C5_FollowUpKeepsPlan ==
  [][(pc = "node_Decide" /\ DecidedAction = <<"FOLLOW_UP">>
        /\ state'.currentNode = "ASK") =>
       /\ state' = [state EXCEPT !.currentNode = "ASK",
                                 !.currentQuestionText = cotResult.nextMessage]
       /\ items' = items
       /\ mheap' = mheap]_vars

C5_Witness ==
  /\ event = "node_Decide"
  /\ state.currentNode = "ASK"
  /\ LoggedAction = <<"FOLLOW_UP">>
  /\ state.currentQuestionText = <<"m">>
  /\ state.currentQuestionIndex = 0

\* C6: on an action other than WRAP_UP and FOLLOW_UP, with the index
\* not the last one, DECIDE completes the current item, activates the next,
\* moves the index on by one, takes the proposed utterance and goes to ASK.
C6_AdvancesUnlessLastIndex ==
  [][(pc = "node_Decide" /\ DecidedAction \notin {<<"WRAP_UP">>, <<"FOLLOW_UP">>}
        /\ state.currentQuestionIndex # LastIndex) =>
       LET index == state.currentQuestionIndex
       IN /\ state' = [state EXCEPT !.currentNode = "ASK",
                                    !.currentQuestionIndex = index + 1,
                                    !.currentQuestionText = cotResult.nextMessage]
          /\ index + 2 \in 1..Len(state.plan)
          /\ items' = [items EXCEPT
                         ![state.plan[index + 1]].status = "COMPLETED",
                         ![state.plan[index + 2]].status = "ACTIVE"]]_vars

\* C7: the metrics a pending reasoning call was given are those of a snapshot
\* already in metricsHistory, taken at the LISTEN->ANALYZE step of its turn,
\* and stay equal to it whatever the pipeline does while the call is pending.
C7_ReasoningSeesItsTurnSnapshot ==
  \A i \in 1..Len(cotCalls) :
     /\ cotCalls[i].metrics \in Range(state.metricsHistory)
     /\ cotCalls[i].perception = Perception(mheap[cotCalls[i].metrics])
     /\ state.currentNode = "ANALYZE" =>
          cotCalls[i].metrics = Last(state.metricsHistory)

C7_Witness ==
  /\ Len(cotCalls) = 1
  /\ Len(state.metricsHistory) = 2
  /\ cotCalls[1].perception # Perception(currentMetrics)
  /\ mheap[state.metricsHistory[1]] # mheap[state.metricsHistory[2]]

\* C8: no step changes the metrics object of an entry of metricsHistory, nor
\* the one the last AnalysisRecord holds.
C8_HistoryEntriesFrozen ==
  [][/\ \A i \in 1..Len(state.metricsHistory) :
          mheap'[state.metricsHistory[i]] = mheap[state.metricsHistory[i]]
     /\ \A i \in 1..Len(state.lastAnalysis) :
          mheap'[state.lastAnalysis[i].metrics] = mheap[state.lastAnalysis[i].metrics]
    ]_vars

C8_Witness ==
  /\ Len(state.metricsHistory) = 1
  /\ state.lastAnalysis # None
  /\ ~isRunning
  /\ rafPending = 1
  /\ currentMetrics.confidence # mheap[state.metricsHistory[1]].confidence
  /\ currentMetrics.speechRate # mheap[state.metricsHistory[1]].speechRate

\* C9: after every step metricsHistory has as many entries as the transcript
\* has candidate entries, and only an accepted submitAnswer, going from LISTEN
\* to ANALYZE, adds to it, one entry at a time.
C9_OneSnapshotPerTurn ==
  [][/\ Len(state'.metricsHistory) = UserEntries(state'.transcript)
     /\ state'.metricsHistory # state.metricsHistory =>
          /\ event' = "submitAnswer"
          /\ state.currentNode = "LISTEN"
          /\ state'.currentNode = "ANALYZE"
          /\ Len(state'.metricsHistory) = Len(state.metricsHistory) + 1]_vars

C9_Witness ==
  /\ Len(state.metricsHistory) = 2
  /\ UserEntries(state.transcript) = 2
  /\ starts = 2
  /\ state.currentNode = "WRAP_UP"

\* C10: every step leaves the old transcript a prefix of the new one and the
\* old metricsHistory a prefix of the new one.
C10_HistoriesOnlyGrow ==
  [][/\ IsPrefix(state.transcript, state'.transcript)
     /\ IsPrefix(state.metricsHistory, state'.metricsHistory)]_vars

C10_Witness ==
  /\ Len(state.transcript) >= 5
  /\ Len(state.metricsHistory) = 2
  /\ starts = 2

\* C11: whenever the plan is non-empty and the machine is not in WRAP_UP or
\* END, currentQuestionIndex is a valid index of the plan.
C11_IndexWithinPlan ==
  (Len(state.plan) > 0 /\ state.currentNode \notin {"WRAP_UP", "END"}) =>
    state.currentQuestionIndex \in 0..LastIndex

\* the positions of the plan whose item is ACTIVE
ActiveItems == {i \in 1..Len(state.plan) : items[state.plan[i]].status = "ACTIVE"}

\* C12: at most one plan item is ACTIVE; in ASK, LISTEN, ANALYZE and DECIDE
\* exactly one is, the item at currentQuestionIndex; before start() none is.
C12_OneActiveItemAtIndex ==
  /\ Cardinality(ActiveItems) <= 1
  /\ state.currentNode \in {"ASK", "LISTEN", "ANALYZE", "DECIDE"} =>
       ActiveItems = {state.currentQuestionIndex + 1}
  /\ starts = 0 => ActiveItems = {}

\* C13: no step changes anything reachable from a state already delivered to
\* a subscriber: its plan items and its metrics entries stay as delivered
\* (its transcript and the rest are values of the delivered record itself).
C13_DeliveredStatesImmutable ==
  [][\A cb \in Callbacks : \A k \in 1..Len(delivered[cb]) :
        /\ \A r \in Range(delivered[cb][k].plan) : items'[r] = items[r]
        /\ \A r \in Range(delivered[cb][k].metricsHistory) : mheap'[r] = mheap[r]
    ]_vars

\* C14: a registered subscriber is never behind: after every step, each
\* callback that holds a registration it has not unsubscribed was last called
\* with the current state.
C14_SubscribersSeeCurrentState ==
  \A cb \in Callbacks : handles[cb] > 0 => delivered[cb] = Some(state)

\* C15: the machine enters LISTEN only when every playback an ASK started
\* has completed and its settle delay has expired: at a step into LISTEN no
\* buffer is still playing and no settle timer is still pending.
C15_ListenAfterPlaybackAndDelay ==
  [][(state'.currentNode = "LISTEN" /\ state.currentNode # "LISTEN") =>
       (playing' = 0 /\ timers' = 0)]_vars

\* C16: when synthesizeSpeech yields no buffer, that step starts no playback
\* and no settle timer and takes the machine from ASK to LISTEN at once, the
\* transcript already ending with the agent utterance of the current question.
C16_NoBufferGoesFromAskToListen ==
  [][(ttsCalls' < ttsCalls /\ event' = "no speech") =>
       /\ playing' = playing
       /\ timers' = timers
       /\ state.currentNode = "ASK"
       /\ state'.currentNode = "LISTEN"
       /\ state'.transcript = state.transcript
       /\ Last(state.transcript).role = "ai"
       /\ Last(state.transcript).text = state.currentQuestionText]_vars

\* C17: when plan generation fails, node_Init installs the two-item default
\* plan with its first item ACTIVE and its second PENDING, and the machine
\* is in ASK with currentQuestionIndex 0.
C17_DefaultPlanOnFailure ==
  [][(planCalls' < planCalls /\ event' = "node_Init after failure") =>
       /\ Len(state'.plan) = 2
       /\ items'[state'.plan[1]] = [DefaultPlan[1] EXCEPT !.status = "ACTIVE"]
       /\ items'[state'.plan[2]] = DefaultPlan[2]
       /\ items'[state'.plan[2]].status = "PENDING"
       /\ state'.currentQuestionIndex = 0
       /\ state'.currentNode = "ASK"]_vars

\* C18: for every response the reasoning call returns, each field resolves on
\* its own: scores that are missing or no numbers to 5, strengths and
\* weaknesses that are missing or no arrays to the empty sequence, a next
\* utterance that is missing or mistyped to the generic line, an action that
\* is missing or mistyped to NEXT_QUESTION; well-typed fields are kept; the
\* AnalysisRecord carries the resolved scores and sequences.
C18_DefaultsFieldByField ==
  [][\A raw \in ParseInputs :
       (~raw.fail /\ Len(cotCalls) > 0 /\ node_Analyze(1, raw)) =>
         LET hasC == raw.stepC_Analysis.isObject
             hasS == hasC /\ raw.stepC_Analysis.scores.isObject
             hasD == raw.stepD_Decision.isObject
             content == raw.stepC_Analysis.scores.content
             delivery == raw.stepC_Analysis.scores.delivery
             strengths == raw.stepC_Analysis.strengths
             weaknesses == raw.stepC_Analysis.weaknesses
             record == state'.lastAnalysis[1]
         IN /\ record.contentScore =
                 IF hasS /\ content.isNumber THEN content.val ELSE 5
            /\ record.deliveryScore =
                 IF hasS /\ delivery.isNumber THEN delivery.val ELSE 5
            /\ record.strengths =
                 IF hasC /\ strengths.isArray THEN strengths.val ELSE <<>>
            /\ record.weaknesses =
                 IF hasC /\ weaknesses.isArray THEN weaknesses.val ELSE <<>>
            /\ cotResult'.nextMessage =
                 IF raw.nextMessage \in {NoText, Mistyped} THEN GenericLine
                 ELSE raw.nextMessage
            /\ cotResult'.stepD_Decision.action =
                 IF hasD /\ raw.stepD_Decision.action \notin {NoText, Mistyped}
                 THEN raw.stepD_Decision.action
                 ELSE <<"NEXT_QUESTION">>]_vars

\* C19: WRAP_UP is terminal: no step takes the machine out of WRAP_UP.
C19_WrapUpIsTerminal ==
  [][state.currentNode = "WRAP_UP" => state'.currentNode = "WRAP_UP"]_vars

\* C20: after every audio tick the speech-time window spans at most 5000 ms
\* from its oldest to its newest entry.
C20_SpeechWindowSpan ==
  speechHistory # <<>> =>
    Last(speechHistory).time - speechHistory[1].time <= WindowMs

\* C21: the loudness buffer never holds more than 50 entries and the gaze
\* buffer never more than 30; no stored loudness reading is at or below the
\* floor of 5; a running tick stores a reading above the floor at the end of
\* the buffer and, when the buffer was full, drops its oldest entry, and
\* stores nothing for a reading at or below the floor; a face result does the
\* same with the gaze buffer, and a no-face result leaves it alone.
C21_BuffersBoundedFifo ==
  /\ [](/\ Len(rmsValues) <= RmsWindow
        /\ Len(gazeHistory) <= GazeWindow
        /\ \A i \in 1..Len(rmsValues) : rmsValues[i] > RmsFloor)
  /\ [][/\ \A rms \in RmsInputs, dt \in TickGaps \cup PipelineGaps :
             (isRunning /\ audioTick(rms, dt)) =>
               rmsValues' =
                 IF rms <= RmsFloor THEN rmsValues
                 ELSE IF Len(rmsValues) = RmsWindow
                      THEN Append(Tail(rmsValues), rms)
                      ELSE Append(rmsValues, rms)
        /\ \A face \in FaceOutcomes :
             onFaceResults(face) =>
               gazeHistory' =
                 IF face = "no face" THEN gazeHistory
                 ELSE IF Len(gazeHistory) = GazeWindow
                      THEN Append(Tail(gazeHistory), face = "looking")
                      ELSE Append(gazeHistory, face = "looking")]_vars

\* both buffers full, each after a step that dropped its oldest entry
C21_Witness ==
  /\ sensorEvents = 2
  /\ inFlight = 0
  /\ Len(rmsValues) = RmsWindow
  /\ \A i \in 1..(RmsWindow - 1) : rmsValues[i] = 40
  /\ rmsValues[RmsWindow] = 10
  /\ Len(gazeHistory) = GazeWindow
  /\ \A i \in 1..(GazeWindow - 1) : gazeHistory[i]
  /\ ~gazeHistory[GazeWindow]

\* C22: in every state of the pipeline volumeStability lies in [0, 10] (0 to
\* 100 tenths) and eyeContact and confidence lie in [0, 100].
C22_MetricsInRange ==
  /\ currentMetrics.volumeStability \in 0..100
  /\ currentMetrics.eyeContact \in 0..100
  /\ currentMetrics.confidence \in 0..100

\* the lower ends: a shouting run, one face result looking away and then one
\* without a face
C22_Witness ==
  /\ currentMetrics.volumeStability = 0
  /\ currentMetrics.eyeContact = 0
  /\ currentMetrics.confidence = 0
  /\ gazeHistory = <<FALSE>>
  /\ sensorEvents = 2
  /\ inFlight = 0

\* C23: while the speech-time window holds frames, the published pauseRatio
\* and the percentage of its frames classified as speech add up to 100, up to
\* the rounding of pauseRatio to one decimal: in tenths, pauseRatio differs
\* from 1000 - 1000 * speechFrames / totalFrames by at most one half.
C23_PauseRatioComplementsSpeech ==
  speechHistory # <<>> =>
    LET totalFrames == Len(speechHistory)
        speechFrames == Cardinality({i \in 1..Len(speechHistory) :
                                       speechHistory[i].isSpeech})
        offBy == currentMetrics.pauseRatio * totalFrames
                   + 1000 * speechFrames - 1000 * totalFrames
    IN 2 * offBy <= totalFrames /\ -2 * offBy <= totalFrames

\* two of three frames are speech: pauseRatio is 33.3
C23_Witness ==
  /\ Len(speechHistory) = 3
  /\ Cardinality({i \in 1..Len(speechHistory) : speechHistory[i].isSpeech}) = 2
  /\ currentMetrics.pauseRatio = 333
  /\ sensorEvents = 2

\* C24: once stopped, and until initAudio or initVideo is called again, the
\* loudness buffer, the speech-time window and the gaze buffer are empty,
\* whatever callbacks were scheduled or in flight at the stop; the next
\* initAudio finds the audio buffers empty and leaves exactly one tick loop
\* scheduled, and the next initVideo finds the gaze buffer empty.
C24_StopLeavesCleanState ==
  /\ []((~isRunning /\ ~cameraOn) =>
          (rmsValues = <<>> /\ speechHistory = <<>> /\ gazeHistory = <<>>))
  /\ [][/\ (~isRunning /\ isRunning') => rafPending' = 1
        /\ (~cameraOn /\ cameraOn') => gazeHistory = <<>>]_vars

\* C25: a face result with a face appends its gaze classification to the gaze
\* buffer, sets eyeContact to the rounded percentage of true entries of the
\* buffer and confidence to round(0.6 * eyeContact + 0.4 * volumeStability *
\* 10) kept within [0, 100]; a result without a face sets eyeContact to 0,
\* leaves the gaze buffer alone and lowers confidence by 5, not below 0.
C25_ConfidenceUpdateRule ==
  [][\A face \in FaceOutcomes :
       onFaceResults(face) =>
         LET before == currentMetrics
             after == mheap'[CurrentMetricsRef]
             trues == Cardinality({i \in 1..Len(gazeHistory') : gazeHistory'[i]})
             blend == 6 * after.eyeContact + 4 * before.volumeStability
         IN IF face # "no face"
            THEN /\ Len(gazeHistory') > 0
                 /\ Last(gazeHistory') = (face = "looking")
                 /\ \/ gazeHistory' = Append(gazeHistory, face = "looking")
                    \/ gazeHistory' = Append(Tail(gazeHistory), face = "looking")
                 /\ 2 * Len(gazeHistory') * after.eyeContact
                      <= 200 * trues + Len(gazeHistory')
                 /\ 200 * trues + Len(gazeHistory')
                      < 2 * Len(gazeHistory') * (after.eyeContact + 1)
                 /\ after.confidence \in 0..100
                 /\ 10 * after.confidence <= blend + 5
                 /\ blend + 5 < 10 * (after.confidence + 1)
            ELSE /\ after.eyeContact = 0
                 /\ gazeHistory' = gazeHistory
                 /\ after.confidence =
                      IF before.confidence >= 5 THEN before.confidence - 5 ELSE 0]_vars

\* a full buffer of looking entries and a stability of 7.0: a result looking
\* away gave eyeContact 97 and confidence 86, a result without a face then
\* eyeContact 0 and confidence 81
C25_Witness ==
  /\ Len(gazeHistory) = GazeWindow
  /\ ~Last(gazeHistory)
  /\ \A i \in 1..(GazeWindow - 1) : gazeHistory[i]
  /\ currentMetrics.volumeStability = 70
  /\ currentMetrics.eyeContact = 0
  /\ currentMetrics.confidence = 81
  /\ sensorEvents = 2
  /\ inFlight = 0

\* a step in which processAudioLoop ran to its end
ProcessedTick ==
  \/ \E rms \in RmsInputs : initAudio(rms)
  \/ isRunning /\ \E rms \in RmsInputs, dt \in TickGaps \cup PipelineGaps : audioTick(rms, dt)

\* t tenths is max(0, 10 - sqrt(variance(readings)) / 5) to one decimal: with
\* n readings of sum S and sum of squares Q, variance is (n*Q - S*S) / n^2
IsStabilityOf(t, readings) ==
  LET n == Len(readings)
      S == SumSeq(readings)
      V == n * SumSeq(Squares(readings)) - S * S
  IN IF n = 0 THEN t = 100
     ELSE /\ t \in 0..100
          /\ t = 0 \/ 16 * V <= (n * (201 - 2 * t)) * (n * (201 - 2 * t))
          /\ t = 100 \/ 16 * V >= (n * (199 - 2 * t)) * (n * (199 - 2 * t))

\* C26, as the specification states it: after every audio tick
\* volumeStability is max(0, 10 - sqrt(variance(readings)) / 5) to one
\* decimal, for the readings the loudness buffer then holds, whatever they are.
C26_StabilityFromVariance ==
  [][ProcessedTick =>
       IsStabilityOf(mheap'[CurrentMetricsRef].volumeStability, rmsValues')]_vars

\* C26, amended: after every audio tick volumeStability is that value when the
\* loudness buffer holds more than 10 readings, and 10 when it holds 10 or
\* fewer.
C26_StabilityFromVarianceAboveTen ==
  [][ProcessedTick =>
       IF Len(rmsValues') > RmsMinSamples
       THEN IsStabilityOf(mheap'[CurrentMetricsRef].volumeStability, rmsValues')
       ELSE mheap'[CurrentMetricsRef].volumeStability = 100]_vars

\* twelve ticks, twelve readings of 40 and 10 in turn and then a twelfth of
\* 40: the stability is below 10
C26_Witness ==
  /\ Len(speechHistory) = 12
  /\ Len(rmsValues) = 12
  /\ rmsValues[11] = 40
  /\ rmsValues[12] = 40
  /\ currentMetrics.volumeStability \in 1..99
  /\ sensorEvents = 1

\* C27: an audio tick leaves eyeContact, confidence, clarity and the gaze
\* buffer as they were; a face result leaves speechRate, pauseRatio,
\* volumeStability, clarity, the loudness buffer and the speech-time window as
\* they were.
C27_SubPipelinesIndependent ==
  [][LET before == currentMetrics
         after == mheap'[CurrentMetricsRef]
     IN /\ (\/ \E rms \in RmsInputs : initAudio(rms)
            \/ \E rms \in RmsInputs, dt \in TickGaps \cup PipelineGaps : audioTick(rms, dt))
           => /\ after.eyeContact = before.eyeContact
              /\ after.confidence = before.confidence
              /\ after.clarity = before.clarity
              /\ gazeHistory' = gazeHistory
        /\ (\E face \in FaceOutcomes : onFaceResults(face))
           => /\ after.speechRate = before.speechRate
              /\ after.pauseRatio = before.pauseRatio
              /\ after.volumeStability = before.volumeStability
              /\ after.clarity = before.clarity
              /\ rmsValues' = rmsValues
              /\ speechHistory' = speechHistory]_vars

\* a face result looking away and then a tick that moves the stability from
\* 10 to 7.0: eyeContact and confidence are still those of the face result
C27_Witness ==
  /\ Len(speechHistory) = 11
  /\ Len(rmsValues) = 11
  /\ currentMetrics.volumeStability = 70
  /\ Len(gazeHistory) = GazeWindow
  /\ ~Last(gazeHistory)
  /\ \A i \in 1..(GazeWindow - 1) : gazeHistory[i]
  /\ currentMetrics.eyeContact = 97
  /\ currentMetrics.confidence = 98
  /\ sensorEvents = 2
  /\ inFlight = 0

\* C28: the machine enters LISTEN only from ASK, so no playback or timer
\* callback sets LISTEN while it is in ANALYZE, DECIDE or WRAP_UP, and at
\* most one reasoning call is in flight at any time.
C28_ListenOnlyFromAsk ==
  /\ [](Len(cotCalls) <= 1)
  /\ [][(state'.currentNode = "LISTEN" /\ state.currentNode # "LISTEN") =>
          state.currentNode = "ASK"]_vars

\* C29: a call of an unsubscribe function removes exactly the registration it
\* was returned for: the callback has one registration fewer in the list the
\* emissions go to, and every other registration, of the same callback or of
\* another, stays in it.
C29_UnsubscribeRemovesOneRegistration ==
  [][\A cb \in Callbacks :
       unsubscribe(cb) =>
         \A other \in Callbacks :
           Cardinality({i \in 1..Len(listeners') : listeners'[i] = other}) =
             Cardinality({i \in 1..Len(listeners) : listeners[i] = other})
               - (IF other = cb THEN 1 ELSE 0)]_vars

\* C30: in DECIDE, and in ASK, LISTEN and WRAP_UP once a turn is complete
\* (an analysis is there), the reasoning log has as many entries as
\* metricsHistory, lastAnalysis.metrics is the last entry of metricsHistory,
\* lastAnalysis.userAnswer is the text of the last candidate entry of the
\* transcript, and lastAnalysis.questionText is the text of the agent entry
\* right before that candidate entry.
C30_TurnRecordsAligned ==
  (\/ state.currentNode = "DECIDE"
   \/ state.currentNode \in {"ASK", "LISTEN", "WRAP_UP"} /\ state.lastAnalysis # None) =>
    LET users == {i \in 1..Len(state.transcript) : state.transcript[i].role = "user"}
    IN /\ Len(state.cotHistory) = Len(state.metricsHistory)
       /\ state.lastAnalysis # None
       /\ state.metricsHistory # <<>>
       /\ state.lastAnalysis[1].metrics = Last(state.metricsHistory)
       /\ users # {}
       /\ LET u == MaxOf(users)
          IN /\ state.lastAnalysis[1].userAnswer = state.transcript[u].text
             /\ u > 1
             /\ state.transcript[u - 1].role = "ai"
             /\ state.lastAnalysis[1].questionText = state.transcript[u - 1].text

\* C31: currentQuestionIndex never decreases; the status of a plan item only
\* moves forward along PENDING, ACTIVE, COMPLETED; once a plan is loaded every
\* item before currentQuestionIndex is COMPLETED and every item after it is
\* PENDING; no item is SKIPPED and currentNode is never END.
C31_PlanProgressMonotone ==
  /\ [](/\ Len(state.plan) > 0 =>
             \A i \in 1..Len(state.plan) :
                /\ i < state.currentQuestionIndex + 1 =>
                     items[state.plan[i]].status = "COMPLETED"
                /\ i > state.currentQuestionIndex + 1 =>
                     items[state.plan[i]].status = "PENDING"
        /\ \A r \in 1..Len(items) : items[r].status # "SKIPPED"
        /\ state.currentNode # "END")
  /\ [][/\ state'.currentQuestionIndex >= state.currentQuestionIndex
        /\ \A r \in 1..Len(items) :
             \/ items'[r].status = items[r].status
             \/ items[r].status = "PENDING" /\ items'[r].status \in {"ACTIVE", "COMPLETED"}
             \/ items[r].status = "ACTIVE" /\ items'[r].status = "COMPLETED"]_vars

====
